---- MODULE Spec2Model ----
(***************************************************************************)
(* IEBus controller (jadjer/esp-iebus): the link-layer framer of           *)
(* Controller.cpp on top of the physical bit codec of Driver.cpp.          *)
(*                                                                         *)
(* One controller instance is modelled.  A call of readMessage() or        *)
(* writeMessage() advances one Driver operation per step; the peer and the *)
(* bus line are the environment, which chooses the pulse widths a receive  *)
(* operation measures and may leave the line stuck at one level.           *)
(***************************************************************************)
EXTENDS Integers, Naturals, Sequences, FiniteSets, TLC

(***************************************************************************)
(* Program constants                                                       *)
(***************************************************************************)
MASTER_ADDRESS_BIT_SIZE == 12
SLAVE_ADDRESS_BIT_SIZE == 12
CONTROL_BIT_SIZE == 4
DATA_LENGTH_BIT_SIZE == 8
DATA_BIT_SIZE == 8

MAX_MESSAGE_SIZE == 256

START_BIT_TOTAL_US == 190
START_BIT_HIGH_US == 171
START_BIT_LOW_US == START_BIT_TOTAL_US - START_BIT_HIGH_US
START_BIT_THRESHOLD_US == 20

DATA_BIT_TOTAL_US == 39
DATA_BIT_0_HIGH_US == 33
DATA_BIT_0_LOW_US == DATA_BIT_TOTAL_US - DATA_BIT_0_HIGH_US
DATA_BIT_1_HIGH_US == 20
DATA_BIT_1_LOW_US == DATA_BIT_TOTAL_US - DATA_BIT_1_HIGH_US

\* enum class BroadcastType / AcknowledgmentType, by their wire symbol
BROADCAST == 0
FOR_DEVICE == 1
ACK == 0
NAK == 1

\* width of Data (std::uint16_t), Address (std::uint16_t) and Byte
DataWidth == 16
ByteWidth == 8

(***************************************************************************)
(* Bounds and sampled inputs                                               *)
(***************************************************************************)
\* payload indices below MaxFreeData carry any byte of DataSamples; the
\* bytes of the rest of a long payload follow PatternByte
MaxFreeData == 1

\* the longest active pulse measured, in microseconds
MaxPulse == 400

\* the most microseconds that pass between two consecutive reads (of the
\* line or of the clock) in isBusFree()
MaxTick == 15

LocalAddresses == {291}                  \* 0x123
MasterSamples == {1110}                  \* 0x456
SlaveSamples == {291, 292}               \* 0x123 (local), 0x124
ControlSamples == {2, 15}
LengthSamples == {0, 1, 2, 255}          \* raw 8-bit length values on the wire
DataSamples == {171, 1}                  \* 0xAB, 0x01
WriteLengths == {0, 1, 2, 255, 256}      \* Message::dataLength handed to writeMessage
StartWidths == {33, 150, 151, 171, 191, 192}
BitWidths == {0, 20, 26, 27, 33, 171}

PatternByte(k) == (k * 7 + 3) % 256

(***************************************************************************)
(* Bit arithmetic                                                          *)
(***************************************************************************)
BitAt(v, k) == (v \div (2 ^ k)) % 2

Xor(a, b) == (a + b) % 2

\* v | (b << k) for a single bit b
OrBit(v, b, k) == IF b = 1 /\ BitAt(v, k) = 0 THEN v + 2 ^ k ELSE v

Abs(x) == IF x < 0 THEN 0 - x ELSE x

\* reference parity of the n low bits of v: the number of set bits, mod 2
XorParity(v, n) == Cardinality({k \in 0 .. n - 1 : BitAt(v, k) = 1}) % 2

(***************************************************************************)
(* Controller::calculateParity / Controller::checkParity                   *)
(***************************************************************************)
RECURSIVE calculateParityLoop(_, _, _, _)
calculateParityLoop(data, size, k, parity) ==
  IF k < size
    THEN calculateParityLoop(data, size, k + 1, Xor(parity, BitAt(data, k)))
    ELSE parity

\* calculateParity whose loop starts at bit 1
calculateParity_FromBit1(data, size) == calculateParityLoop(data % (2 ^ DataWidth), size, 1, 0)

calculateParity(data, size) == calculateParityLoop(data % (2 ^ DataWidth), size, 0, 0)

checkParity(data, size, parity) == calculateParity(data, size) = parity

(***************************************************************************)
(* Driver: the bit codec as functions of the measured / emitted pulses     *)
(***************************************************************************)
\* decodeBit with the two canonical widths exchanged
decodeBit_Swapped(pulseWidthUs) ==
  LET diff0 == Abs(pulseWidthUs - DATA_BIT_1_HIGH_US)
      diff1 == Abs(pulseWidthUs - DATA_BIT_0_HIGH_US)
  IN  IF diff1 < diff0 THEN 1 ELSE 0

decodeBit(pulseWidthUs) ==
  LET diff0 == Abs(pulseWidthUs - DATA_BIT_0_HIGH_US)
      diff1 == Abs(pulseWidthUs - DATA_BIT_1_HIGH_US)
  IN  IF diff1 < diff0 THEN 1 ELSE 0

\* receiveStartBit() whose window excludes its two ends
isStartBit_Strict(highDuration) ==
  /\ highDuration > START_BIT_HIGH_US - START_BIT_THRESHOLD_US
  /\ highDuration < START_BIT_HIGH_US + START_BIT_THRESHOLD_US

\* receiveStartBit() for a measured high duration
isStartBit(highDuration) ==
  /\ highDuration >= START_BIT_HIGH_US - START_BIT_THRESHOLD_US
  /\ highDuration <= START_BIT_HIGH_US + START_BIT_THRESHOLD_US

\* receiveBit() for a measured high duration
receiveBit(highDuration) == decodeBit(highDuration)

\* receiveBits(numBits) for the high durations of the next numBits pulses
RECURSIVE receiveBitsLoop(_, _, _, _)
receiveBitsLoop(pulses, numBits, k, result) ==
  IF k < numBits
    THEN LET bit == receiveBit(pulses[k + 1])
             bitValue == IF bit # 0 THEN 1 ELSE 0
             bitShift == numBits - 1 - k
         IN  receiveBitsLoop(pulses, numBits, k + 1,
                             OrBit(result, bitValue, bitShift) % (2 ^ DataWidth))
    ELSE result

receiveBits(pulses, numBits) == receiveBitsLoop(pulses, numBits, 0, 0)

\* receiveAckBit() for a measured high duration
receiveAckBit(highDuration) == IF receiveBit(highDuration) = 0 THEN ACK ELSE NAK

\* transmitStartBit(): the <<high, low>> pulse driven on the tx pin
transmitStartBit == <<START_BIT_HIGH_US, START_BIT_LOW_US>>

\* transmitBit(bit): the <<high, low>> pulse driven on the tx pin
transmitBit(bit) ==
  LET highDuration == IF bit # 0 THEN DATA_BIT_1_HIGH_US ELSE DATA_BIT_0_HIGH_US
      lowDuration == IF bit # 0 THEN DATA_BIT_1_LOW_US ELSE DATA_BIT_0_LOW_US
  IN  <<highDuration, lowDuration>>

\* transmitBits whose loop starts at the least significant bit
transmitBits_LsbFirst(data, numBits) ==
  [k \in 1 .. numBits |->
     LET bitPosition == k - 1
         bit == BitAt(data % (2 ^ DataWidth), bitPosition)
     IN  transmitBit(bit)]

\* transmitBits(data, numBits): the pulses driven, first pulse first
transmitBits(data, numBits) ==
  [k \in 1 .. numBits |->
     LET bitPosition == numBits - 1 - (k - 1)
         bit == BitAt(data % (2 ^ DataWidth), bitPosition)
     IN  transmitBit(bit)]

\* sendAckBit(ack): the pulse driven
sendAckBit(ack) == IF ack = ACK THEN transmitBit(0) ELSE transmitBit(1)

\* the high durations of a pulse train, as the receiver of the line measures them
Highs(pulses) == [k \in 1 .. Len(pulses) |-> pulses[k][1]]

(***************************************************************************)
(* State                                                                   *)
(***************************************************************************)
VARIABLES
  m_isEnabled,   \* Driver::m_isEnabled
  m_address,     \* Controller::m_address
  call,          \* the call in progress: "none", "read" or "write"
  pc,            \* position inside the call
  message,       \* readMessage: local `message`; writeMessage: the argument
  i,             \* index of the data-field loop
  parityBit,     \* local parityBit / masterParityBit of the current block
  ackBit,        \* local ackBit of the current block
  ret,           \* value returned by the last call
  bus,           \* the line: "live", or stuck at one level for good
  wire,          \* what went over the line during the call, field by field
  rxCount,       \* pulses received during the call
  hsCount,       \* handshake bits readMessage() transmitted for the current field
  lastOp,        \* the last Driver operation of the call
  failedField,   \* the field whose parity bit on the wire was wrong / whose handshake was Rejected
  lastGate,      \* the most recent gate call: "none", "enable" or "disable"
  pure           \* inputs and results of the pure-function specifications

vars == <<m_isEnabled, m_address, call, pc, message, i, parityBit, ackBit, ret,
          bus, wire, rxCount, hsCount, lastOp, failedField, lastGate, pure>>

\* the controller and its line, without the pure-function scratch state
ctl == <<m_isEnabled, m_address, call, pc, message, i, parityBit, ackBit, ret,
         bus, wire, rxCount, hsCount, lastOp, failedField, lastGate>>

ZeroData == [k \in 0 .. MAX_MESSAGE_SIZE - 1 |-> 0]

\* Message message = {};
ZeroMessage ==
  [broadcast |-> BROADCAST, master |-> 0, slave |-> 0, control |-> 0,
   dataLength |-> 0, data |-> ZeroData]

\* -1: not on the wire (yet); parity and req are the parity pulse and the
\* handshake pulse of the field in progress, as symbols
NoWire ==
  [start |-> FALSE, broadcast |-> -1, master |-> -1, slave |-> -1,
   control |-> -1, length |-> -1, data |-> <<>>, parity |-> -1, req |-> -1]

NoRet == [kind |-> "none", value |-> 0]
Nullopt == [kind |-> "nullopt", value |-> 0]
Bool(b) == [kind |-> "bool", value |-> IF b THEN 1 ELSE 0]

NoOp == [op |-> "none", field |-> "none", val |-> -1]

Op(o, f, v) == [op |-> o, field |-> f, val |-> v]

NoPure == [stage |-> "off", n |-> 0, v |-> 0, k |-> 0, parity |-> 0, ok |-> TRUE, okFlipped |-> FALSE]

\* the controller as constructed: Driver::m_isEnabled = false, no call made
InitController ==
  /\ m_isEnabled = FALSE
  /\ m_address \in LocalAddresses
  /\ call = "none"
  /\ pc = "idle"
  /\ message = ZeroMessage
  /\ i = 0
  /\ parityBit = 0
  /\ ackBit = ACK
  /\ ret = NoRet
  /\ bus = "live"
  /\ wire = NoWire
  /\ rxCount = 0
  /\ hsCount = 0
  /\ lastOp = NoOp
  /\ failedField = "none"
  /\ lastGate = "none"

Init ==
  /\ InitController
  /\ pure = NoPure

(***************************************************************************)
(* Gate                                                                    *)
(***************************************************************************)
enable ==
  /\ call = "none" /\ pc = "idle"
  /\ m_isEnabled' = TRUE
  /\ lastGate' = "enable"
  /\ UNCHANGED <<m_address, call, pc, message, i, parityBit, ackBit, ret, bus,
                 wire, rxCount, hsCount, lastOp, failedField, pure>>

\* disable() that leaves m_isEnabled as it was
disable_NoClear ==
  /\ call = "none" /\ pc = "idle"
  /\ lastGate' = "disable"
  /\ UNCHANGED <<m_isEnabled, m_address, call, pc, message, i, parityBit, ackBit,
                 ret, bus, wire, rxCount, hsCount, lastOp, failedField, pure>>

disable ==
  /\ call = "none" /\ pc = "idle"
  /\ m_isEnabled' = FALSE
  /\ lastGate' = "disable"
  /\ UNCHANGED <<m_address, call, pc, message, i, parityBit, ackBit, ret, bus,
                 wire, rxCount, hsCount, lastOp, failedField, pure>>

isEnabled == m_isEnabled

(***************************************************************************)
(* The line                                                                *)
(***************************************************************************)
\* the line stops changing level: disconnected, shorted, or a peer stalls
BusStuck ==
  /\ bus = "live"
  /\ bus' \in {"stuckLow", "stuckHigh"}
  /\ UNCHANGED <<m_isEnabled, m_address, call, pc, message, i, parityBit,
                 ackBit, ret, wire, rxCount, hsCount, lastOp, failedField,
                 lastGate, pure>>

\* waitBusHigh() followed by waitBusLow() returns only if the line makes
\* both transitions
PulseArrives == bus = "live"

\* the symbol a pulse of the given high duration stands for on the wire
SymbolOf(highDuration) ==
  IF 2 * highDuration < DATA_BIT_0_HIGH_US + DATA_BIT_1_HIGH_US THEN 1 ELSE 0

\* what every step of a call leaves alone
Frame == UNCHANGED <<m_isEnabled, m_address, bus, lastGate, pure>>

\* return r: the call is over, its frame is as the return statement left it
Return(r) ==
  /\ pc' = "returned"
  /\ ret' = r
  /\ UNCHANGED <<call, message, i, parityBit, ackBit>>

\* the value readMessage() returns for a complete frame
Some(msg) == [kind |-> "message", value |-> msg]

\* the caller has taken the returned value and is free to make its next call
Release ==
  /\ pc = "returned"
  /\ call' = "none"
  /\ pc' = "idle"
  /\ message' = ZeroMessage
  /\ i' = 0
  /\ parityBit' = 0
  /\ ackBit' = ACK
  /\ ret' = NoRet
  /\ wire' = NoWire
  /\ rxCount' = 0
  /\ hsCount' = 0
  /\ lastOp' = NoOp
  /\ failedField' = "none"
  /\ Frame

(***************************************************************************)
(* Controller::readMessage                                                 *)
(***************************************************************************)
\* the caller enters readMessage()
readMessage ==
  /\ call = "none" /\ pc = "idle"
  /\ call' = "read"
  /\ pc' = "r_enabled"
  /\ message' = ZeroMessage
  /\ i' = 0
  /\ parityBit' = 0
  /\ ackBit' = ACK
  /\ ret' = NoRet
  /\ wire' = NoWire
  /\ rxCount' = 0
  /\ hsCount' = 0
  /\ lastOp' = NoOp
  /\ failedField' = "none"
  /\ Frame

ReadCheckEnabled ==
  /\ call = "read" /\ pc = "r_enabled"
  /\ IF ~isEnabled
       THEN Return(Nullopt)
       ELSE /\ pc' = "r_start"
            /\ UNCHANGED <<call, ret, message, i, parityBit, ackBit>>
  /\ UNCHANGED <<wire, rxCount, hsCount, lastOp, failedField>>
  /\ Frame

\* ReadStartBit that goes on whatever the pulse was
ReadStartBit_NoCheck ==
  /\ call = "read" /\ pc = "r_start"
  /\ PulseArrives
  /\ \E d \in StartWidths :
       /\ rxCount' = rxCount + 1
       /\ lastOp' = Op("rxStart", "start", IF isStartBit(d) THEN 1 ELSE 0)
       /\ wire' = [wire EXCEPT !.start = (Abs(d - START_BIT_HIGH_US) <= START_BIT_THRESHOLD_US)]
       /\ pc' = "r_broadcast"
       /\ UNCHANGED <<call, ret, message, i, parityBit, ackBit>>
  /\ UNCHANGED <<hsCount, failedField>>
  /\ Frame

ReadStartBit ==
  /\ call = "read" /\ pc = "r_start"
  /\ PulseArrives
  /\ \E d \in StartWidths :
       /\ rxCount' = rxCount + 1
       /\ lastOp' = Op("rxStart", "start", IF isStartBit(d) THEN 1 ELSE 0)
       /\ wire' = [wire EXCEPT !.start = (Abs(d - START_BIT_HIGH_US) <= START_BIT_THRESHOLD_US)]
       /\ IF ~isStartBit(d)
            THEN Return(Nullopt)
            ELSE /\ pc' = "r_broadcast"
                 /\ UNCHANGED <<call, ret, message, i, parityBit, ackBit>>
  /\ UNCHANGED <<hsCount, failedField>>
  /\ Frame

\* ReadBroadcastBit that goes on with the slave block
ReadBroadcastBit_SkipMaster ==
  /\ call = "read" /\ pc = "r_broadcast"
  /\ PulseArrives
  /\ \E d \in BitWidths :
       LET broadcastBit == receiveBit(d)
       IN  /\ message' = [message EXCEPT !.broadcast =
                            IF broadcastBit = 0 THEN BROADCAST ELSE FOR_DEVICE]
           /\ wire' = [wire EXCEPT !.broadcast = SymbolOf(d)]
           /\ lastOp' = Op("rxBit", "broadcast", broadcastBit)
  /\ rxCount' = rxCount + 1
  /\ pc' = "r_slave_bits"
  /\ UNCHANGED <<call, ret, i, parityBit, ackBit, hsCount, failedField>>
  /\ Frame

ReadBroadcastBit ==
  /\ call = "read" /\ pc = "r_broadcast"
  /\ PulseArrives
  /\ \E d \in BitWidths :
       LET broadcastBit == receiveBit(d)
       IN  /\ message' = [message EXCEPT !.broadcast =
                            IF broadcastBit = 0 THEN BROADCAST ELSE FOR_DEVICE]
           /\ wire' = [wire EXCEPT !.broadcast = SymbolOf(d)]
           /\ lastOp' = Op("rxBit", "broadcast", broadcastBit)
  /\ rxCount' = rxCount + 1
  /\ pc' = "r_master_bits"
  /\ UNCHANGED <<call, ret, i, parityBit, ackBit, hsCount, failedField>>
  /\ Frame

\* message.<field> = m_driver.receiveBits(size), the peer sending value v
RxFieldBits(f, v, size, stored, nextPc) ==
  /\ PulseArrives
  /\ message' = stored
  /\ wire' = IF f = "data"
               THEN [wire EXCEPT !.data = Append(@, v), !.parity = -1, !.req = -1]
               ELSE [wire EXCEPT ![f] = v, !.parity = -1, !.req = -1]
  /\ lastOp' = Op("rxBits", f, receiveBits(Highs(transmitBits(v, size)), size))
  /\ rxCount' = rxCount + size
  /\ hsCount' = 0
  /\ pc' = nextPc
  /\ UNCHANGED <<call, ret, i, parityBit, ackBit, failedField>>
  /\ Frame

\* auto const parityBit = m_driver.receiveBit(), for the field whose wire value is v
RxFieldParity(f, v, size, nextPc) ==
  /\ PulseArrives
  /\ \E d \in BitWidths :
       /\ parityBit' = receiveBit(d)
       /\ lastOp' = Op("rxBit", f, receiveBit(d))
       /\ wire' = [wire EXCEPT !.parity = SymbolOf(d)]
       /\ failedField' = IF SymbolOf(d) # XorParity(v, size) THEN f ELSE failedField
  /\ rxCount' = rxCount + 1
  /\ pc' = nextPc
  /\ UNCHANGED <<call, ret, message, i, ackBit, hsCount>>
  /\ Frame

\* auto const ackBit = m_driver.receiveAckBit()
RxFieldAck(f, nextPc) ==
  /\ PulseArrives
  /\ \E d \in BitWidths :
       /\ ackBit' = receiveAckBit(d)
       /\ lastOp' = Op("rxAck", f, receiveAckBit(d))
       /\ wire' = [wire EXCEPT !.req = SymbolOf(d)]
  /\ rxCount' = rxCount + 1
  /\ pc' = nextPc
  /\ UNCHANGED <<call, ret, message, i, parityBit, hsCount, failedField>>
  /\ Frame

\* m_driver.sendAckBit(ack)
TxAck(f, ack) ==
  /\ lastOp' = Op("txAck", f, SymbolOf(sendAckBit(ack)[1]))
  /\ hsCount' = hsCount + 1

\* isAnswer without the BroadcastType test
isAnswer_NoBroadcastTest ==
  LET isNeedAnswer == ackBit = ACK
      isForThisDevice == message.slave = m_address
  IN  isNeedAnswer /\ isForThisDevice

\* isAnswer without the handshake-request test
isAnswer_NoRequestTest ==
  LET isForDevice == message.broadcast = FOR_DEVICE
      isForThisDevice == message.slave = m_address
  IN  isForDevice /\ isForThisDevice

\* isAnswer of the current block
isAnswer ==
  LET isNeedAnswer == ackBit = ACK
      isForDevice == message.broadcast = FOR_DEVICE
      isForThisDevice == message.slave = m_address
  IN  isNeedAnswer /\ isForDevice /\ isForThisDevice

\* FieldAnswer that sends Rejected but goes on with the next field
FieldAnswer_NoAbort(f, value, size, Continue) ==
  LET isParityValid == checkParity(value, size, parityBit)
  IN  /\ IF ~isParityValid
           THEN /\ IF isAnswer THEN TxAck(f, NAK) ELSE UNCHANGED <<lastOp, hsCount>>
                /\ Continue
           ELSE /\ IF isAnswer THEN TxAck(f, ACK) ELSE UNCHANGED <<lastOp, hsCount>>
                /\ Continue
      /\ UNCHANGED <<wire, rxCount, failedField>>
      /\ Frame

\* the tail of a handshake-eligible block: the parity verdict, the handshake
\* bit if one is owed, and either the abort or the step to the next field
FieldAnswer(f, value, size, Continue) ==
  LET isParityValid == checkParity(value, size, parityBit)
  IN  /\ IF ~isParityValid
           THEN /\ IF isAnswer THEN TxAck(f, NAK) ELSE UNCHANGED <<lastOp, hsCount>>
                /\ Return(Nullopt)
           ELSE /\ IF isAnswer THEN TxAck(f, ACK) ELSE UNCHANGED <<lastOp, hsCount>>
                /\ Continue
      /\ UNCHANGED <<wire, rxCount, failedField>>
      /\ Frame

\* proceed to the block at nextPc; parityBit and ackBit go out of scope
Goto(nextPc) ==
  /\ pc' = nextPc
  /\ parityBit' = 0
  /\ ackBit' = ACK
  /\ UNCHANGED <<call, ret, message, i>>

ReadMasterBits ==
  /\ call = "read" /\ pc = "r_master_bits"
  /\ \E v \in MasterSamples :
       RxFieldBits("master", v, MASTER_ADDRESS_BIT_SIZE,
                   [message EXCEPT !.master =
                      receiveBits(Highs(transmitBits(v, MASTER_ADDRESS_BIT_SIZE)),
                                  MASTER_ADDRESS_BIT_SIZE)],
                   "r_master_parity")

\* the master parity bit and its check: no handshake either way
ReadMasterParity ==
  /\ call = "read" /\ pc = "r_master_parity"
  /\ PulseArrives
  /\ \E d \in BitWidths :
       LET masterParityBit == receiveBit(d)
           isParityValid == checkParity(message.master, MASTER_ADDRESS_BIT_SIZE, masterParityBit)
       IN  /\ lastOp' = Op("rxBit", "master", masterParityBit)
           /\ wire' = [wire EXCEPT !.parity = SymbolOf(d)]
           /\ failedField' = IF SymbolOf(d) # XorParity(wire.master, MASTER_ADDRESS_BIT_SIZE)
                               THEN "master" ELSE failedField
           /\ IF ~isParityValid THEN Return(Nullopt) ELSE Goto("r_slave_bits")
  /\ rxCount' = rxCount + 1
  /\ UNCHANGED hsCount
  /\ Frame

ReadSlaveBits ==
  /\ call = "read" /\ pc = "r_slave_bits"
  /\ \E v \in SlaveSamples :
       RxFieldBits("slave", v, SLAVE_ADDRESS_BIT_SIZE,
                   [message EXCEPT !.slave =
                      receiveBits(Highs(transmitBits(v, SLAVE_ADDRESS_BIT_SIZE)),
                                  SLAVE_ADDRESS_BIT_SIZE)],
                   "r_slave_parity")

\* ReadSlaveParity followed at once by the verdict, no handshake-request bit
ReadSlaveParity_NoRequest ==
  /\ call = "read" /\ pc = "r_slave_parity"
  /\ RxFieldParity("slave", wire.slave, SLAVE_ADDRESS_BIT_SIZE, "r_slave_answer")

ReadSlaveParity ==
  /\ call = "read" /\ pc = "r_slave_parity"
  /\ RxFieldParity("slave", wire.slave, SLAVE_ADDRESS_BIT_SIZE, "r_slave_ack")

ReadSlaveAck ==
  /\ call = "read" /\ pc = "r_slave_ack"
  /\ RxFieldAck("slave", "r_slave_answer")

ReadSlaveAnswer ==
  /\ call = "read" /\ pc = "r_slave_answer"
  /\ FieldAnswer("slave", message.slave, SLAVE_ADDRESS_BIT_SIZE, Goto("r_control_bits"))

ReadControlBits ==
  /\ call = "read" /\ pc = "r_control_bits"
  /\ \E v \in ControlSamples :
       RxFieldBits("control", v, CONTROL_BIT_SIZE,
                   [message EXCEPT !.control =
                      receiveBits(Highs(transmitBits(v, CONTROL_BIT_SIZE)),
                                  CONTROL_BIT_SIZE) % (2 ^ ByteWidth)],
                   "r_control_parity")

ReadControlParity ==
  /\ call = "read" /\ pc = "r_control_parity"
  /\ RxFieldParity("control", wire.control, CONTROL_BIT_SIZE, "r_control_ack")

ReadControlAck ==
  /\ call = "read" /\ pc = "r_control_ack"
  /\ RxFieldAck("control", "r_control_answer")

ReadControlAnswer ==
  /\ call = "read" /\ pc = "r_control_answer"
  /\ FieldAnswer("control", message.control, CONTROL_BIT_SIZE, Goto("r_length_bits"))

ReadLengthBits ==
  /\ call = "read" /\ pc = "r_length_bits"
  /\ \E v \in LengthSamples :
       RxFieldBits("length", v, DATA_LENGTH_BIT_SIZE,
                   [message EXCEPT !.dataLength =
                      receiveBits(Highs(transmitBits(v, DATA_LENGTH_BIT_SIZE)),
                                  DATA_LENGTH_BIT_SIZE)],
                   "r_length_parity")

ReadLengthParity ==
  /\ call = "read" /\ pc = "r_length_parity"
  /\ RxFieldParity("length", wire.length, DATA_LENGTH_BIT_SIZE, "r_length_ack")

ReadLengthAck ==
  /\ call = "read" /\ pc = "r_length_ack"
  /\ RxFieldAck("length", "r_length_answer")

\* no remap of the raw length
LengthRemap_None(dataLength) == dataLength

\* if (message.dataLength == 0) message.dataLength = 256;
LengthRemap(dataLength) == IF dataLength = 0 THEN 256 ELSE dataLength

\* the end of the length block: the remap, then the entry of the data loop
ReadLengthAnswer ==
  /\ call = "read" /\ pc = "r_length_answer"
  /\ FieldAnswer("length", message.dataLength, DATA_LENGTH_BIT_SIZE,
                 /\ message' = [message EXCEPT !.dataLength = LengthRemap(@)]
                 /\ i' = 0
                 /\ parityBit' = 0
                 /\ ackBit' = ACK
                 /\ pc' = "r_data_test"
                 /\ UNCHANGED <<call, ret>>)

\* ReadDataTest whose loop condition is i <= dataLength
ReadDataTest_OneMore ==
  /\ call = "read" /\ pc = "r_data_test"
  /\ IF i <= message.dataLength
       THEN /\ pc' = "r_data_bits"
            /\ UNCHANGED <<call, ret, message, i, parityBit, ackBit>>
       ELSE /\ Return(Some(message))
  /\ UNCHANGED <<wire, rxCount, hsCount, lastOp, failedField>>
  /\ Frame

\* for (...; i < message.dataLength; ...), and return message after the loop
ReadDataTest ==
  /\ call = "read" /\ pc = "r_data_test"
  /\ IF i < message.dataLength
       THEN /\ pc' = "r_data_bits"
            /\ UNCHANGED <<call, ret, message, i, parityBit, ackBit>>
       ELSE /\ Return(Some(message))
  /\ UNCHANGED <<wire, rxCount, hsCount, lastOp, failedField>>
  /\ Frame

\* the payload bytes the peer may send at index k
ByteChoices(k) == IF k < MaxFreeData THEN DataSamples ELSE {PatternByte(k)}

\* ReadDataBits that stores every byte at index 0
ReadDataBits_Index0 ==
  /\ call = "read" /\ pc = "r_data_bits"
  /\ \E v \in ByteChoices(i) :
       RxFieldBits("data", v, DATA_BIT_SIZE,
                   [message EXCEPT !.data[0] =
                      receiveBits(Highs(transmitBits(v, DATA_BIT_SIZE)),
                                  DATA_BIT_SIZE) % (2 ^ ByteWidth)],
                   "r_data_parity")

ReadDataBits ==
  /\ call = "read" /\ pc = "r_data_bits"
  /\ \E v \in ByteChoices(i) :
       RxFieldBits("data", v, DATA_BIT_SIZE,
                   [message EXCEPT !.data[i] =
                      receiveBits(Highs(transmitBits(v, DATA_BIT_SIZE)),
                                  DATA_BIT_SIZE) % (2 ^ ByteWidth)],
                   "r_data_parity")

ReadDataParity ==
  /\ call = "read" /\ pc = "r_data_parity"
  /\ RxFieldParity("data", wire.data[Len(wire.data)], DATA_BIT_SIZE, "r_data_ack")

ReadDataAck ==
  /\ call = "read" /\ pc = "r_data_ack"
  /\ RxFieldAck("data", "r_data_answer")

ReadDataAnswer ==
  /\ call = "read" /\ pc = "r_data_answer"
  /\ FieldAnswer("data", message.data[i], DATA_BIT_SIZE,
                 /\ i' = i + 1
                 /\ parityBit' = 0
                 /\ ackBit' = ACK
                 /\ pc' = "r_data_test"
                 /\ UNCHANGED <<call, ret, message>>)

ReadStep ==
  \/ ReadCheckEnabled
  \/ ReadStartBit
  \/ ReadBroadcastBit
  \/ ReadMasterBits
  \/ ReadMasterParity
  \/ ReadSlaveBits
  \/ ReadSlaveParity
  \/ ReadSlaveAck
  \/ ReadSlaveAnswer
  \/ ReadControlBits
  \/ ReadControlParity
  \/ ReadControlAck
  \/ ReadControlAnswer
  \/ ReadLengthBits
  \/ ReadLengthParity
  \/ ReadLengthAck
  \/ ReadLengthAnswer
  \/ ReadDataTest
  \/ ReadDataBits
  \/ ReadDataParity
  \/ ReadDataAck
  \/ ReadDataAnswer

(***************************************************************************)
(* Controller::writeMessage                                                *)
(***************************************************************************)
\* the value a train of pulses stands for on the wire, first pulse = top bit
RECURSIVE ValueOf(_)
ValueOf(highs) ==
  IF highs = <<>> THEN 0
  ELSE SymbolOf(highs[1]) * 2 ^ (Len(highs) - 1) + ValueOf(Tail(highs))

\* the frames handed to writeMessage()
WriteMessages ==
  {[broadcast |-> b, master |-> m, slave |-> s, control |-> c, dataLength |-> l,
    data |-> [k \in 0 .. MAX_MESSAGE_SIZE - 1 |->
                IF k < MaxFreeData THEN d ELSE PatternByte(k)]] :
     b \in {BROADCAST, FOR_DEVICE}, m \in MasterSamples, s \in SlaveSamples,
     c \in ControlSamples, l \in WriteLengths, d \in DataSamples}

\* the caller enters writeMessage(msg)
writeMessage ==
  /\ call = "none" /\ pc = "idle"
  /\ \E msg \in WriteMessages : message' = msg
  /\ call' = "write"
  /\ pc' = "w_enabled"
  /\ i' = 0
  /\ parityBit' = 0
  /\ ackBit' = ACK
  /\ ret' = NoRet
  /\ wire' = NoWire
  /\ rxCount' = 0
  /\ hsCount' = 0
  /\ lastOp' = NoOp
  /\ failedField' = "none"
  /\ Frame

\* WriteCheckEnabled without the gate test
WriteCheckEnabled_NoGate ==
  /\ call = "write" /\ pc = "w_enabled"
  /\ pc' = "w_busfree"
  /\ UNCHANGED <<call, ret, message, i, parityBit, ackBit>>
  /\ UNCHANGED <<wire, rxCount, hsCount, lastOp, failedField>>
  /\ Frame

WriteCheckEnabled ==
  /\ call = "write" /\ pc = "w_enabled"
  /\ IF ~isEnabled
       THEN Return(Bool(FALSE))
       ELSE /\ pc' = "w_busfree"
            /\ UNCHANGED <<call, ret, message, i, parityBit, ackBit>>
  /\ UNCHANGED <<wire, rxCount, hsCount, lastOp, failedField>>
  /\ Frame

\* what isBusFree() can return: a line stuck low is idle for a whole bit
\* period, a line stuck high never is, a live line may be either
isBusFree ==
  CASE bus = "live" -> {TRUE, FALSE}
    [] bus = "stuckLow" -> {TRUE}
    [] bus = "stuckHigh" -> {FALSE}

\* WriteWaitBusFree that goes on whatever isBusFree() says
WriteWaitBusFree_Ignore ==
  /\ call = "write" /\ pc = "w_busfree"
  /\ \E free \in isBusFree :
       /\ lastOp' = Op("isBusFree", "none", IF free THEN 1 ELSE 0)
       /\ pc' = "w_start"
  /\ UNCHANGED <<call, ret, message, i, parityBit, ackBit, wire, rxCount,
                 hsCount, failedField>>
  /\ Frame

\* while (not m_driver.isBusFree()) ...
WriteWaitBusFree ==
  /\ call = "write" /\ pc = "w_busfree"
  /\ \E free \in isBusFree :
       /\ lastOp' = Op("isBusFree", "none", IF free THEN 1 ELSE 0)
       /\ pc' = IF free THEN "w_start" ELSE "w_delay"
  /\ UNCHANGED <<call, ret, message, i, parityBit, ackBit, wire, rxCount,
                 hsCount, failedField>>
  /\ Frame

\* ... { delayUs(1); }, and back to the loop test
WriteDelay ==
  /\ call = "write" /\ pc = "w_delay"
  /\ pc' = "w_busfree"
  /\ UNCHANGED <<call, ret, message, i, parityBit, ackBit, wire, rxCount,
                 hsCount, lastOp, failedField>>
  /\ Frame

WriteStartBit ==
  /\ call = "write" /\ pc = "w_start"
  /\ wire' = [wire EXCEPT !.start =
                (Abs(transmitStartBit[1] - START_BIT_HIGH_US) <= START_BIT_THRESHOLD_US)]
  /\ lastOp' = Op("txStart", "start", transmitStartBit[1])
  /\ pc' = "w_broadcast"
  /\ UNCHANGED <<call, ret, message, i, parityBit, ackBit, rxCount, hsCount, failedField>>
  /\ Frame

WriteBroadcastBit ==
  /\ call = "write" /\ pc = "w_broadcast"
  /\ LET pulse == IF message.broadcast = BROADCAST THEN transmitBit(0) ELSE transmitBit(1)
     IN  /\ wire' = [wire EXCEPT !.broadcast = SymbolOf(pulse[1])]
         /\ lastOp' = Op("txBit", "broadcast", SymbolOf(pulse[1]))
  /\ pc' = "w_master_bits"
  /\ UNCHANGED <<call, ret, message, i, parityBit, ackBit, rxCount, hsCount, failedField>>
  /\ Frame

\* m_driver.transmitBits(value, size)
TxFieldBits(f, value, size, nextPc) ==
  /\ LET onWire == ValueOf(Highs(transmitBits(value, size)))
     IN  /\ wire' = IF f = "data"
                      THEN [wire EXCEPT !.data = Append(@, onWire), !.parity = -1, !.req = -1]
                      ELSE [wire EXCEPT ![f] = onWire, !.parity = -1, !.req = -1]
         /\ lastOp' = Op("txBits", f, onWire)
  /\ pc' = nextPc
  /\ UNCHANGED <<call, ret, message, i, parityBit, ackBit, rxCount, hsCount, failedField>>
  /\ Frame

\* auto const parityBit = calculateParity(value, size); m_driver.transmitBit(parityBit);
TxFieldParity(f, value, size, nextPc) ==
  /\ parityBit' = calculateParity(value, size)
  /\ lastOp' = Op("txBit", f, SymbolOf(transmitBit(calculateParity(value, size))[1]))
  /\ wire' = [wire EXCEPT !.parity = SymbolOf(transmitBit(calculateParity(value, size))[1])]
  /\ pc' = nextPc
  /\ UNCHANGED <<call, ret, message, i, ackBit, rxCount, hsCount, failedField>>
  /\ Frame

\* AwaitAck that goes on whatever the handshake bit says
AwaitAck_NoAbort(f, Continue) ==
  /\ PulseArrives
  /\ \E d \in BitWidths :
       /\ lastOp' = Op("rxAck", f, receiveAckBit(d))
       /\ wire' = [wire EXCEPT !.req = SymbolOf(d)]
       /\ failedField' = IF SymbolOf(d) = NAK THEN f ELSE failedField
       /\ Continue
  /\ rxCount' = rxCount + 1
  /\ UNCHANGED hsCount
  /\ Frame

\* auto const ackBit = m_driver.receiveAckBit(); if (ackBit == NAK) return false;
AwaitAck(f, Continue) ==
  /\ PulseArrives
  /\ \E d \in BitWidths :
       /\ lastOp' = Op("rxAck", f, receiveAckBit(d))
       /\ wire' = [wire EXCEPT !.req = SymbolOf(d)]
       /\ failedField' = IF SymbolOf(d) = NAK THEN f ELSE failedField
       /\ IF receiveAckBit(d) = NAK THEN Return(Bool(FALSE)) ELSE Continue
  /\ rxCount' = rxCount + 1
  /\ UNCHANGED hsCount
  /\ Frame

WriteMasterBits ==
  /\ call = "write" /\ pc = "w_master_bits"
  /\ TxFieldBits("master", message.master, 12, "w_master_parity")

WriteMasterParity ==
  /\ call = "write" /\ pc = "w_master_parity"
  /\ TxFieldParity("master", message.master, 12, "w_slave_bits")

WriteSlaveBits ==
  /\ call = "write" /\ pc = "w_slave_bits"
  /\ TxFieldBits("slave", message.slave, 12, "w_slave_parity")

WriteSlaveParity ==
  /\ call = "write" /\ pc = "w_slave_parity"
  /\ TxFieldParity("slave", message.slave, 12, "w_slave_ack")

WriteSlaveAck ==
  /\ call = "write" /\ pc = "w_slave_ack"
  /\ AwaitAck("slave", Goto("w_control_bits"))

WriteControlBits ==
  /\ call = "write" /\ pc = "w_control_bits"
  /\ TxFieldBits("control", message.control, 4, "w_control_parity")

WriteControlParity ==
  /\ call = "write" /\ pc = "w_control_parity"
  /\ TxFieldParity("control", message.control, 4, "w_control_ack")

WriteControlAck ==
  /\ call = "write" /\ pc = "w_control_ack"
  /\ AwaitAck("control", Goto("w_length_bits"))

\* WriteLengthBits that clamps the length to the 8-bit maximum
WriteLengthBits_Clamp ==
  /\ call = "write" /\ pc = "w_length_bits"
  /\ TxFieldBits("length", IF message.dataLength > 255 THEN 255 ELSE message.dataLength,
                 8, "w_length_parity")

WriteLengthBits ==
  /\ call = "write" /\ pc = "w_length_bits"
  /\ TxFieldBits("length", message.dataLength, 8, "w_length_parity")

WriteLengthParity ==
  /\ call = "write" /\ pc = "w_length_parity"
  /\ TxFieldParity("length", message.dataLength, 8, "w_length_ack")

WriteLengthAck ==
  /\ call = "write" /\ pc = "w_length_ack"
  /\ AwaitAck("length", /\ i' = 0
                        /\ parityBit' = 0
                        /\ ackBit' = ACK
                        /\ pc' = "w_data_test"
                        /\ UNCHANGED <<call, ret, message>>)

\* for (...; i < message.dataLength; ...), and return true after the loop
WriteDataTest ==
  /\ call = "write" /\ pc = "w_data_test"
  /\ IF i < message.dataLength
       THEN /\ pc' = "w_data_bits"
            /\ UNCHANGED <<call, ret, message, i, parityBit, ackBit>>
       ELSE /\ Return(Bool(TRUE))
  /\ UNCHANGED <<wire, rxCount, hsCount, lastOp, failedField>>
  /\ Frame

WriteDataBits ==
  /\ call = "write" /\ pc = "w_data_bits"
  /\ TxFieldBits("data", message.data[i], 8, "w_data_parity")

WriteDataParity ==
  /\ call = "write" /\ pc = "w_data_parity"
  /\ TxFieldParity("data", message.data[i], 8, "w_data_ack")

WriteDataAck ==
  /\ call = "write" /\ pc = "w_data_ack"
  /\ AwaitAck("data", /\ i' = i + 1
                      /\ parityBit' = 0
                      /\ ackBit' = ACK
                      /\ pc' = "w_data_test"
                      /\ UNCHANGED <<call, ret, message>>)

WriteStep ==
  \/ WriteCheckEnabled
  \/ WriteWaitBusFree
  \/ WriteDelay
  \/ WriteStartBit
  \/ WriteBroadcastBit
  \/ WriteMasterBits
  \/ WriteMasterParity
  \/ WriteSlaveBits
  \/ WriteSlaveParity
  \/ WriteSlaveAck
  \/ WriteControlBits
  \/ WriteControlParity
  \/ WriteControlAck
  \/ WriteLengthBits
  \/ WriteLengthParity
  \/ WriteLengthAck
  \/ WriteDataTest
  \/ WriteDataBits
  \/ WriteDataParity
  \/ WriteDataAck

(***************************************************************************)
(* Properties                                                              *)
(***************************************************************************)
InCall == call # "none" /\ pc # "returned"

\* pulses readMessage() has received when it is through field f, its parity
\* bit and its handshake slot, n payload bytes having been on the wire
PulsesThrough(f, n) ==
  LET master == 1 + 1 + MASTER_ADDRESS_BIT_SIZE + 1
      slave == master + SLAVE_ADDRESS_BIT_SIZE + 2
      control == slave + CONTROL_BIT_SIZE + 2
      length == control + DATA_LENGTH_BIT_SIZE + 2
  IN  CASE f = "master" -> master
        [] f = "slave" -> slave
        [] f = "control" -> control
        [] f = "length" -> length
        [] f = "data" -> length + n * (DATA_BIT_SIZE + 2)

\* nothing of a field after f has been on the wire
LaterAbsent(f) ==
  /\ f \in {"master"} => wire.slave = -1
  /\ f \in {"master", "slave"} => wire.control = -1
  /\ f \in {"master", "slave", "control"} => wire.length = -1
  /\ f \in {"master", "slave", "control", "length"} => wire.data = <<>>

\* the handshake of the field in progress is owed by this node
WireOwed ==
  /\ wire.broadcast = FOR_DEVICE
  /\ wire.slave = m_address
  /\ wire.req = 0

\* C1: once the parity bit of a field on the wire is wrong, readMessage()
\* receives nothing beyond that field's handshake slot (nothing at all after
\* the master parity bit), transmits one Rejected bit if the handshake is owed
\* and nothing otherwise, and returns empty.
C1_AbortOnParityFailure ==
  (call = "read" /\ failedField # "none") =>
    /\ pc \in (IF failedField = "master" THEN {"returned"}
               ELSE {"r_" \o failedField \o "_ack", "r_" \o failedField \o "_answer", "returned"})
    /\ LaterAbsent(failedField)
    /\ pc = "returned" =>
         /\ ret.kind = "nullopt"
         /\ rxCount = PulsesThrough(failedField, Len(wire.data))
         /\ IF failedField # "master" /\ WireOwed
              THEN lastOp = Op("txAck", failedField, NAK) /\ hsCount = 1
              ELSE lastOp.op # "txAck" /\ hsCount = 0

C1_Witness ==
  /\ call = "read" /\ pc = "returned"
  /\ failedField = "data"
  /\ Len(wire.data) = 2
  /\ lastOp = Op("txAck", "data", NAK)

\* C2: while reading a Broadcast frame, or a ForDevice frame whose slave
\* address is not the local address, readMessage() transmits no handshake bit.
C2_AddressingFilter ==
  (/\ call = "read"
   /\ \/ wire.broadcast = BROADCAST
      \/ wire.broadcast = FOR_DEVICE /\ wire.slave # -1 /\ wire.slave # m_address)
  => (hsCount = 0 /\ lastOp.op # "txAck")

C2_Witness ==
  /\ call = "read" /\ pc = "returned"
  /\ ret.kind = "message"
  /\ wire.broadcast = BROADCAST
  /\ wire.slave = m_address
  /\ wire.req = 0

\* C3: once the handshake bit awaited after a field is Rejected, writeMessage()
\* has returned failure and nothing of a later field has been transmitted.
C3_AbortOnReject ==
  (call = "write" /\ failedField # "none") =>
    /\ pc = "returned"
    /\ ret.kind = "bool" /\ ret.value = 0
    /\ lastOp = Op("rxAck", failedField, NAK)
    /\ LaterAbsent(failedField)
    /\ failedField = "data" => Len(wire.data) = i + 1

C3_Witness ==
  /\ call = "write" /\ pc = "returned"
  /\ failedField = "control"
  /\ wire.control # -1
  /\ wire.length = -1

\* the Message the fields on the wire make up
WireMessage ==
  [broadcast |-> wire.broadcast, master |-> wire.master, slave |-> wire.slave,
   control |-> wire.control,
   dataLength |-> IF wire.length = 0 THEN 256 ELSE wire.length,
   data |-> [k \in 0 .. MAX_MESSAGE_SIZE - 1 |->
               IF k < Len(wire.data) THEN wire.data[k + 1] ELSE 0]]

\* a whole frame went over the wire and every parity bit was right
WireFrameGood ==
  /\ m_isEnabled
  /\ wire.start
  /\ failedField = "none"
  /\ wire.length # -1
  /\ Len(wire.data) = (IF wire.length = 0 THEN 256 ELSE wire.length)

\* C4: readMessage() returns a Message exactly when it was enabled, saw a
\* start bit and every field of a whole frame had the right parity, and that
\* Message is the frame on the wire; otherwise it returns empty.
C4_NoPartialFrame ==
  (call = "read" /\ pc = "returned") =>
    IF WireFrameGood
      THEN ret.kind = "message" /\ ret.value = WireMessage
      ELSE ret.kind = "nullopt"

C4_Witness ==
  /\ call = "read" /\ pc = "returned"
  /\ ret.kind = "message"
  /\ wire.broadcast = FOR_DEVICE
  /\ wire.length = 2
  /\ wire.data[1] # wire.data[2]

\* C5: every readMessage() / writeMessage() call returns, whatever the line does.
C5_EveryCallReturns == InCall ~> (pc = "returned")

\* C6: a disabled readMessage() returns empty without touching the line; an
\* enabled one whose first pulse is not a start bit returns empty having
\* received that pulse only and transmitted nothing.
C6_ReadEntry ==
  call = "read" =>
    /\ ~m_isEnabled =>
         /\ pc \in {"r_enabled", "returned"}
         /\ rxCount = 0 /\ hsCount = 0 /\ lastOp = NoOp /\ wire = NoWire
         /\ pc = "returned" => ret.kind = "nullopt"
    /\ lastOp = Op("rxStart", "start", 0) =>
         /\ pc = "returned"
         /\ ret.kind = "nullopt"
         /\ rxCount = 1 /\ hsCount = 0 /\ wire = NoWire
    /\ (pc \notin {"r_enabled", "r_start", "returned"}) => (m_isEnabled /\ wire.start)

C6_Witness ==
  /\ call = "read" /\ pc = "returned"
  /\ m_isEnabled
  /\ lastOp = Op("rxStart", "start", 0)

\* C7: a disabled writeMessage() returns failure with no bus activity: no
\* idle sampling, no pulse transmitted, no handshake awaited.
C7_WriteDisabled ==
  (call = "write" /\ ~m_isEnabled) =>
    /\ pc \in {"w_enabled", "returned"}
    /\ lastOp = NoOp /\ wire = NoWire /\ rxCount = 0
    /\ pc = "returned" => (ret.kind = "bool" /\ ret.value = 0)

C7_Witness ==
  /\ call = "write" /\ pc = "returned"
  /\ ~m_isEnabled
  /\ ret.kind = "bool"

DataPcs == {"r_data_test", "r_data_bits", "r_data_parity", "r_data_ack", "r_data_answer"}

LogicalLength(raw) == IF raw = 0 THEN 256 ELSE raw

\* C8: the length parity is checked on the raw wire value; past that check
\* dataLength is 256 for raw 0 and the raw value otherwise, and a returned
\* Message carries that many payload bytes.
C8_LengthRemap ==
  call = "read" =>
    /\ pc \in {"r_length_parity", "r_length_ack", "r_length_answer"} =>
         message.dataLength = wire.length
    /\ pc = "r_length_answer" =>
         (checkParity(message.dataLength, DATA_LENGTH_BIT_SIZE, parityBit)
            <=> wire.parity = XorParity(wire.length, DATA_LENGTH_BIT_SIZE))
    /\ pc \in DataPcs =>
         /\ failedField # "length"
         /\ message.dataLength = LogicalLength(wire.length)
         /\ Len(wire.data) <= message.dataLength
    /\ (pc = "returned" /\ ret.kind = "message") =>
         /\ ret.value.dataLength = LogicalLength(wire.length)
         /\ Len(wire.data) = LogicalLength(wire.length)

C8_Witness ==
  /\ call = "read" /\ pc = "returned"
  /\ ret.kind = "message"
  /\ wire.length = 0
  /\ Len(wire.data) = 256

\* C9: for dataLength in 1..256 writeMessage() puts dataLength mod 256 on the
\* wire as the length field, with the parity of those 8 bits, then the bytes
\* data[0..] in order; a successful write has sent exactly dataLength of them,
\* which is what the read-path remap makes of the wire length.
C9_WriteLength ==
  (call = "write" /\ message.dataLength \in 1 .. 256) =>
    /\ wire.length # -1 =>
         wire.length = (IF message.dataLength = 256 THEN 0 ELSE message.dataLength)
    /\ pc = "w_length_ack" => wire.parity = XorParity(wire.length, DATA_LENGTH_BIT_SIZE)
    /\ Len(wire.data) <= message.dataLength
    /\ \A k \in 1 .. Len(wire.data) : wire.data[k] = message.data[k - 1]
    /\ (pc = "returned" /\ ret.kind = "bool" /\ ret.value = 1) =>
         /\ Len(wire.data) = message.dataLength
         /\ LogicalLength(wire.length) = Len(wire.data)

C9_Witness ==
  /\ call = "write" /\ pc = "returned"
  /\ ret.kind = "bool" /\ ret.value = 1
  /\ message.dataLength = 256
  /\ wire.length = 0
  /\ Len(wire.data) = 256

(***************************************************************************)
(* Parity over every field value                                           *)
(***************************************************************************)
ParityWidths == {CONTROL_BIT_SIZE, DATA_BIT_SIZE, MASTER_ADDRESS_BIT_SIZE}

FlipBit(v, k) == IF BitAt(v, k) = 1 THEN v - 2 ^ k ELSE v + 2 ^ k

\* every width n, every n-bit value v and every bit position k < n
InitParity ==
  /\ InitController
  /\ \E n \in ParityWidths : \E v \in 0 .. 2 ^ n - 1 : \E k \in 0 .. n - 1 :
       pure = [stage |-> "in", n |-> n, v |-> v, k |-> k, parity |-> 0,
               ok |-> FALSE, okFlipped |-> FALSE]

\* parity = calculateParity(v, n); checkParity(v, n, parity);
\* checkParity(v with bit k flipped, n, parity)
ParityRoundTrip ==
  /\ pure.stage = "in"
  /\ pure' = [pure EXCEPT !.stage = "out",
                          !.parity = calculateParity(pure.v, pure.n),
                          !.ok = checkParity(pure.v, pure.n, calculateParity(pure.v, pure.n)),
                          !.okFlipped = checkParity(FlipBit(pure.v, pure.k), pure.n,
                                                    calculateParity(pure.v, pure.n))]
  /\ UNCHANGED ctl

NextParity == ParityRoundTrip

SpecParity == InitParity /\ [][NextParity]_vars

\* C10: for n in {4, 8, 12} and every n-bit v, calculateParity(v, n) is the
\* XOR of the n low bits, checkParity accepts it for v and rejects it for v
\* with any one bit k < n flipped.
C10_ParityRoundTrip ==
  pure.stage = "out" =>
    /\ pure.parity = XorParity(pure.v, pure.n)
    /\ pure.ok
    /\ ~pure.okFlipped

C10_Witness ==
  /\ pure.stage = "out"
  /\ pure.n = 12
  /\ pure.v = 4095
  /\ pure.k = 0

(***************************************************************************)
(* The bit-field codec as a pure function: transmitBits, then receiveBits  *)
(* on the pulses it drove                                                  *)
(***************************************************************************)
\* the field widths the controller uses, and the single bit
FieldWidths == {1, CONTROL_BIT_SIZE, DATA_BIT_SIZE, MASTER_ADDRESS_BIT_SIZE}

InitBits ==
  /\ InitController
  /\ \E n \in FieldWidths : \E v \in 0 .. 2 ^ n - 1 :
       pure = [stage |-> "bitsIn", n |-> n, v |-> v, pulses |-> <<>>, decoded |-> 0]

\* transmitBits(v, n); the receiver measures the pulses; receiveBits(n)
BitsRoundTrip ==
  /\ pure.stage = "bitsIn"
  /\ pure' = [pure EXCEPT !.stage = "bitsOut",
                          !.pulses = transmitBits(pure.v, pure.n),
                          !.decoded = receiveBits(Highs(transmitBits(pure.v, pure.n)),
                                                  pure.n)]
  /\ UNCHANGED ctl

NextBits == BitsRoundTrip

SpecBits == InitBits /\ [][NextBits]_vars

\* C11: for n in {1, 4, 8, 12} and every n-bit v, transmitBits(v, n) drives n
\* pulses, the k-th of them standing for bit n-k of v (the first for bit n-1)
\* with a high width of 33 us for a 0 and 20 us for a 1, and receiveBits(n)
\* on these pulses yields v.
C11_BitsRoundTrip ==
  pure.stage = "bitsOut" =>
    /\ Len(pure.pulses) = pure.n
    /\ \A k \in 1 .. pure.n :
         pure.pulses[k][1] = (IF BitAt(pure.v, pure.n - k) = 0 THEN 33 ELSE 20)
    /\ pure.decoded = pure.v
    /\ ValueOf(Highs(pure.pulses)) = pure.v

C11_Witness ==
  /\ pure.stage = "bitsOut"
  /\ pure.n = MASTER_ADDRESS_BIT_SIZE
  /\ pure.v = 2 ^ (MASTER_ADDRESS_BIT_SIZE - 1) + 1 + 2
  /\ pure.pulses[1][1] = DATA_BIT_1_HIGH_US
  /\ pure.pulses[2][1] = DATA_BIT_0_HIGH_US
  /\ pure.decoded = pure.v

(***************************************************************************)
(* Gate state                                                              *)
(***************************************************************************)
\* what a step outside a call, and a step of a call, leave alone
GateAndCallsApart ==
  /\ (call = "none" /\ call' = "none") =>
       UNCHANGED <<wire, rxCount, hsCount, lastOp, failedField, message, ret>>
  /\ (call # "none" \/ call' # "none") =>
       UNCHANGED <<m_isEnabled, m_address, lastGate>>

\* C12: the controller starts disabled and isEnabled() is true iff the most
\* recent gate call was enable(); a step that is not part of a call receives
\* and transmits nothing; every step of readMessage() and writeMessage(),
\* whatever the outcome, leaves the gate and the local address as they were.
C12_GateState ==
  /\ [](isEnabled <=> lastGate = "enable")
  /\ [][GateAndCallsApart]_vars

C12_Witness ==
  /\ pc = "returned"
  /\ call = "write"
  /\ failedField # "none"
  /\ ret = Bool(FALSE)
  /\ lastGate = "enable"
  /\ isEnabled

(***************************************************************************)
(* The data model of a returned Message                                    *)
(***************************************************************************)
\* C13: a Message returned by readMessage() has masterAddress and
\* slaveAddress at most 4095, control at most 15 and 1 <= dataLength <= 256;
\* exactly dataLength payload bytes came over the wire and they sit at
\* indices 0 .. dataLength-1, the rest of the array being untouched; the
\* index the data loop writes is always below 256.
C13_DataModel ==
  /\ (call = "read" /\ pc = "returned" /\ ret.kind = "message") =>
       /\ ret.value.master \in 0 .. 4095
       /\ ret.value.slave \in 0 .. 4095
       /\ ret.value.control \in 0 .. 15
       /\ ret.value.dataLength \in 1 .. 256
       /\ Len(wire.data) = ret.value.dataLength
       /\ \A k \in 0 .. 255 :
            ret.value.data[k] = (IF k < ret.value.dataLength THEN wire.data[k + 1] ELSE 0)
       /\ \A k \in 0 .. 255 : ret.value.data[k] \in 0 .. 255
  /\ (call = "read" /\ pc \in DataPcs \ {"r_data_test"}) =>
       /\ i \in 0 .. 255
       /\ i < message.dataLength
       /\ Len(wire.data) \in {i, i + 1}

C13_Witness ==
  /\ call = "read" /\ pc = "returned"
  /\ ret.kind = "message"
  /\ ret.value.dataLength = 256
  /\ Len(wire.data) = 256
  /\ ret.value.data[255] = PatternByte(255)
  /\ ret.value.control = 15

(***************************************************************************)
(* Broadcast writes                                                        *)
(***************************************************************************)
AckPcs == {"w_slave_ack", "w_control_ack", "w_length_ack", "w_data_ack"}

\* C14: while writeMessage() writes a Broadcast frame it never waits for a
\* handshake bit and never receives one, and on an enabled controller the
\* call returns success.
C14_BroadcastNoHandshake ==
  (call = "write" /\ message.broadcast = BROADCAST) =>
    /\ pc \notin AckPcs
    /\ rxCount = 0
    /\ wire.req = -1
    /\ (pc = "returned" /\ isEnabled) => ret = Bool(TRUE)

(***************************************************************************)
(* A flipped slave parity bit in a frame addressed to this node            *)
(***************************************************************************)
\* a ForDevice frame for the local address whose slave parity bit is wrong
\* (the master field went through, or the slave field would not be on the wire)
SlaveParityFlipped ==
  /\ call = "read"
  /\ wire.broadcast = FOR_DEVICE
  /\ wire.slave = m_address
  /\ failedField = "slave"

\* C15 as stated: on a flipped slave parity bit of a frame addressed to this
\* node, readMessage() receives no bit beyond that parity bit (the 28th pulse
\* of the frame), and it returns empty having transmitted one Rejected bit.
C15_RejectedImmediately ==
  SlaveParityFlipped =>
    /\ rxCount <= 28
    /\ pc = "returned" =>
         /\ ret.kind = "nullopt"
         /\ lastOp = Op("txAck", "slave", NAK)
         /\ hsCount = 1

\* C15 amended: on a flipped slave parity bit of a frame addressed to this
\* node, readMessage() first receives one more bit, the peer's
\* handshake-request bit (the 29th pulse), having transmitted nothing before
\* it; it then returns empty without receiving anything further, having
\* transmitted exactly one Rejected bit if the request bit was symbol 0 and
\* nothing if it was symbol 1.
C15_RejectedAfterRequest ==
  SlaveParityFlipped =>
    /\ pc \in {"r_slave_ack", "r_slave_answer", "returned"}
    /\ pc = "r_slave_ack" => (rxCount = 28 /\ hsCount = 0 /\ wire.req = -1)
    /\ pc = "r_slave_answer" => (rxCount = 29 /\ hsCount = 0 /\ wire.req # -1)
    /\ pc = "returned" =>
         /\ ret.kind = "nullopt"
         /\ rxCount = 29
         /\ LaterAbsent("slave")
         /\ IF wire.req = 0
              THEN lastOp = Op("txAck", "slave", NAK) /\ hsCount = 1
              ELSE wire.req = 1 /\ lastOp.op # "txAck" /\ hsCount = 0

C15_Witness ==
  /\ SlaveParityFlipped
  /\ pc = "returned"
  /\ wire.req = 0
  /\ rxCount = 29
  /\ lastOp = Op("txAck", "slave", NAK)

(***************************************************************************)
(* The handshake-owed rule of readMessage()                                *)
(***************************************************************************)
\* the last field that came over the wire
FieldOnWire ==
  IF wire.data # <<>> THEN "data"
  ELSE IF wire.length # -1 THEN "length"
  ELSE IF wire.control # -1 THEN "control"
  ELSE IF wire.slave # -1 THEN "slave"
  ELSE IF wire.master # -1 THEN "master"
  ELSE "none"

AnswerPcs == {"r_slave_answer", "r_control_answer", "r_length_answer", "r_data_answer"}

\* the handshake-request bit of the field on the wire has been received and
\* the block has given its answer
FieldAnswered == call = "read" /\ wire.req # -1 /\ pc \notin AnswerPcs

\* C16: for the slave, control and length fields and every payload byte,
\* readMessage() has transmitted nothing for the field until the peer's
\* handshake-request bit is in; after that it has transmitted exactly one
\* handshake bit if the frame is ForDevice, its slave address is the local
\* address and the request bit was symbol 0, and that bit is Acknowledged
\* (symbol 0) if the field's parity bit was right and Rejected (symbol 1) if
\* it was not; otherwise it has transmitted nothing for the field.
C16_HandshakeOwed ==
  /\ FieldAnswered =>
       /\ FieldOnWire \in {"slave", "control", "length", "data"}
       /\ IF WireOwed
            THEN /\ hsCount = 1
                 /\ lastOp = Op("txAck", FieldOnWire,
                                IF wire.parity = XorParity(IF FieldOnWire = "data"
                                                             THEN wire.data[Len(wire.data)]
                                                             ELSE wire[FieldOnWire],
                                                           IF FieldOnWire = "control" THEN 4
                                                           ELSE IF FieldOnWire = "slave" THEN 12
                                                           ELSE 8)
                                  THEN 0 ELSE 1)
            ELSE hsCount = 0 /\ lastOp.op # "txAck"
  /\ (call = "read" /\ ~FieldAnswered) => (hsCount = 0 /\ lastOp.op # "txAck")

C16_Witness ==
  /\ FieldAnswered
  /\ WireOwed
  /\ pc = "r_data_test"
  /\ Len(wire.data) = 2
  /\ hsCount = 1
  /\ lastOp = Op("txAck", "data", ACK)

(***************************************************************************)
(* The order of the bus operations of writeMessage()                       *)
(***************************************************************************)
\* the width of a field on the wire
WidthOf(f) ==
  CASE f = "master" -> 12
    [] f = "slave" -> 12
    [] f = "control" -> 4
    [] f = "length" -> 8
    [] f = "data" -> 8

\* the field after f
FieldAfter(f) ==
  CASE f = "broadcast" -> "master"
    [] f = "master" -> "slave"
    [] f = "slave" -> "control"
    [] f = "control" -> "length"
    [] f = "length" -> "data"
    [] f = "data" -> "data"

\* the value of field f of the frame being written, sent[f] payload bytes
\* having been sent
FieldOfFrame(f, sent) ==
  CASE f = "master" -> message.master % (2 ^ 12)
    [] f = "slave" -> message.slave % (2 ^ 12)
    [] f = "control" -> message.control % (2 ^ 4)
    [] f = "length" -> message.dataLength % (2 ^ 8)
    [] f = "data" -> message.data[sent]

\* bus operation b may directly follow bus operation a in writeMessage()
WriteFollows(a, b) ==
  CASE a.op = "none" -> b.op = "isBusFree"
    [] a.op = "isBusFree" ->
         IF a.val = 1 THEN b = Op("txStart", "start", 171) ELSE b.op = "isBusFree"
    [] a.op = "txStart" ->
         b = Op("txBit", "broadcast", IF message.broadcast = BROADCAST THEN 0 ELSE 1)
    [] a.op = "txBits" -> b = Op("txBit", a.field, XorParity(a.val, WidthOf(a.field)))
    [] a.op = "txBit" /\ a.field \in {"broadcast", "master"} ->
         b = Op("txBits", FieldAfter(a.field), FieldOfFrame(FieldAfter(a.field), 0))
    [] a.op = "txBit" /\ a.field \notin {"broadcast", "master"} ->
         b.op = "rxAck" /\ b.field = a.field
    [] a.op = "rxAck" ->
         /\ a.val = ACK
         /\ a.field \in {"length", "data"} => Len(wire.data) < message.dataLength
         /\ b = Op("txBits", FieldAfter(a.field),
                   FieldOfFrame(FieldAfter(a.field), Len(wire.data)))
    [] OTHER -> FALSE

WriteOrderStep ==
  (call = "write" /\ call' = "write" /\ (lastOp' # lastOp \/ wire' # wire)) =>
    WriteFollows(lastOp, lastOp')

\* C17: on an enabled controller writeMessage() transmits nothing until
\* isBusFree() has returned true; its bus operations then follow one another
\* in the order start bit, broadcast-type bit (0 Broadcast, 1 ForDevice),
\* master 12 bits + parity, slave 12 bits + parity + one awaited handshake
\* bit, control 4 bits + parity + handshake, length 8 bits + parity +
\* handshake, payload byte 0, 1, ... each 8 bits + parity + handshake; it
\* returns success iff every awaited handshake bit was Acknowledged, the
\* whole frame then having been sent.
C17_WriteOrder ==
  /\ []((call = "write" /\ lastOp.op \in {"none", "isBusFree"}) => wire = NoWire)
  /\ []((call = "write" /\ pc = "returned" /\ isEnabled) =>
          /\ ret = Bool(failedField = "none")
          /\ ret = Bool(TRUE) =>
               /\ Len(wire.data) = message.dataLength
               /\ rxCount = 3 + message.dataLength
               /\ lastOp = Op("rxAck", IF message.dataLength = 0 THEN "length" ELSE "data", ACK))
  /\ [][WriteOrderStep]_vars

C17_Witness ==
  /\ call = "write" /\ pc = "returned"
  /\ isEnabled
  /\ ret = Bool(TRUE)
  /\ message.dataLength = 2
  /\ message.broadcast = FOR_DEVICE
  /\ wire.data = <<message.data[0], message.data[1]>>
  /\ rxCount = 5

(***************************************************************************)
(* The order of the bus operations of readMessage()                        *)
(***************************************************************************)
\* bus operation b may directly follow bus operation a in readMessage()
ReadFollows(a, b) ==
  CASE a.op = "none" -> b.op = "rxStart"
    [] a.op = "rxStart" -> a.val = 1 /\ b.op = "rxBit" /\ b.field = "broadcast"
    [] a.op = "rxBits" -> b.op = "rxBit" /\ b.field = a.field
    [] a.op = "rxBit" /\ a.field \in {"broadcast", "master"} ->
         b.op = "rxBits" /\ b.field = FieldAfter(a.field)
    [] a.op = "rxBit" /\ a.field \notin {"broadcast", "master"} ->
         b.op = "rxAck" /\ b.field = a.field
    [] a.op = "rxAck" ->
         \/ b.op = "txAck" /\ b.field = a.field
         \/ b.op = "rxBits" /\ b.field = FieldAfter(a.field)
    [] a.op = "txAck" -> a.val = ACK /\ b.op = "rxBits" /\ b.field = FieldAfter(a.field)
    [] OTHER -> FALSE

ReadOrderStep ==
  (/\ call = "read" /\ call' = "read"
   /\ lastOp' # lastOp \/ rxCount' # rxCount \/ hsCount' # hsCount \/ wire' # wire)
  => /\ ReadFollows(lastOp, lastOp')
     /\ failedField # "none" =>
          (lastOp'.op \in {"rxAck", "txAck"} /\ lastOp'.field = failedField)
     /\ (lastOp'.op = "rxBits" /\ lastOp'.field = "data") =>
          /\ Len(wire.data) < LogicalLength(wire.length)
          /\ wire'.data = Append(wire.data, lastOp'.val)
          /\ message' = [message EXCEPT !.data[Len(wire.data)] = lastOp'.val]
     /\ (lastOp'.op = "rxBits" /\ lastOp'.field # "data") =>
          /\ wire[lastOp'.field] = -1
          /\ wire'[lastOp'.field] = lastOp'.val

\* C18: readMessage() goes through a frame in the order start bit, broadcast
\* bit, master field, slave field, control field, length field, payload bytes
\* 0, 1, ..., each field once and each payload byte at the next index; with
\* no parity error it has received exactly dataLength payload bytes when it
\* returns; the master parity bit is followed directly by the first slave
\* address bit, or by the return on a parity error, with no handshake bit
\* received or transmitted.
C18_ReadOrder ==
  /\ []((call = "read" /\ pc = "returned" /\ failedField = "none" /\ wire.length # -1) =>
          /\ ret.kind = "message"
          /\ Len(wire.data) = LogicalLength(wire.length)
          /\ rxCount = PulsesThrough("data", LogicalLength(wire.length)))
  /\ []((call = "read" /\ FieldOnWire = "master") =>
          /\ hsCount = 0 /\ wire.req = -1
          /\ lastOp.op \in {"rxBits", "rxBit"}
          /\ rxCount \in {14, 15}
          /\ (failedField = "master" <=> pc = "returned"))
  /\ [][ReadOrderStep]_vars

C18_Witness ==
  /\ call = "read" /\ pc = "returned"
  /\ ret.kind = "message"
  /\ failedField = "none"
  /\ wire.length = 2
  /\ Len(wire.data) = 2
  /\ wire.broadcast = FOR_DEVICE
  /\ wire.slave # m_address

(***************************************************************************)
(* The pulse classifiers as pure functions of the measured duration        *)
(***************************************************************************)
InitPulse ==
  /\ InitController
  /\ \E d \in 0 .. MaxPulse :
       pure = [stage |-> "pulseIn", d |-> d, bit |-> 0, isStart |-> FALSE]

\* the line was active for pure.d microseconds: what receiveBit() and what
\* receiveStartBit() make of it
MeasurePulse ==
  /\ pure.stage = "pulseIn"
  /\ pure' = [pure EXCEPT !.stage = "pulseOut",
                          !.bit = receiveBit(pure.d),
                          !.isStart = isStartBit(pure.d)]
  /\ UNCHANGED ctl

NextPulse == MeasurePulse

SpecPulse == InitPulse /\ [][NextPulse]_vars

\* C19: for a measured active duration d, receiveBit() returns 1 iff d is
\* strictly nearer to 20 than to 33 and 0 otherwise (0 too when d is equally
\* far from both); the widths transmitBit(0) and transmitBit(1) drive are 33
\* and 20 and decode to 0 and 1.
C19_BitDecoding ==
  pure.stage = "pulseOut" =>
    /\ pure.bit = 1 <=>
         (pure.d - 20) * (pure.d - 20) < (pure.d - 33) * (pure.d - 33)
    /\ pure.bit \in {0, 1}
    /\ (pure.d - 20) * (pure.d - 20) = (pure.d - 33) * (pure.d - 33) => pure.bit = 0
    /\ transmitBit(0)[1] = 33 /\ transmitBit(1)[1] = 20
    /\ pure.d = transmitBit(0)[1] => pure.bit = 0
    /\ pure.d = transmitBit(1)[1] => pure.bit = 1

C19_Witness ==
  /\ pure.stage = "pulseOut"
  /\ pure.d = 27
  /\ pure.bit = 0

\* C20: receiveStartBit() returns true iff the measured active duration d
\* has 171 - 20 <= d <= 171 + 20; the 171 us pulse of transmitStartBit() is a
\* start bit, the 20 us and 33 us pulses of transmitBit() are not.
C20_StartBit ==
  pure.stage = "pulseOut" =>
    /\ pure.isStart <=> (171 - 20 <= pure.d /\ pure.d <= 171 + 20)
    /\ transmitStartBit[1] = 171
    /\ pure.d = transmitStartBit[1] => pure.isStart
    /\ pure.d \in {transmitBit(0)[1], transmitBit(1)[1]} => ~pure.isStart

C20_Witness ==
  /\ pure.stage = "pulseOut"
  /\ pure.d = 191
  /\ pure.isStart

(***************************************************************************)
(* Driver::isBusFree, sample by sample                                     *)
(***************************************************************************)
\* the call is made at time pure.now; nothing has been sampled yet
InitBusFree ==
  /\ InitController
  /\ \E t \in {0, 7} :
       pure = [stage |-> "bfCall", now |-> t, callTime |-> t, startTime |-> 0,
               result |-> FALSE, firstIdle |-> FALSE, active |-> 0, idleUntil |-> t]

\* if (isBusHigh()) return false;
BusFreeEntry ==
  /\ pure.stage = "bfCall"
  /\ \E high \in BOOLEAN :
       pure' = [pure EXCEPT !.stage = IF high THEN "bfDone" ELSE "bfStart",
                            !.result = FALSE,
                            !.firstIdle = ~high,
                            !.active = IF high THEN 1 ELSE 0]
  /\ UNCHANGED ctl

\* auto const startTime = getTimeUs();
BusFreeStart ==
  /\ pure.stage = "bfStart"
  /\ \E tick \in 0 .. MaxTick :
       pure' = [pure EXCEPT !.stage = "bfSample",
                            !.now = @ + tick,
                            !.startTime = pure.now + tick]
  /\ UNCHANGED ctl

\* BusFreeSample that stays in the loop whatever the line reads
BusFreeSample_Blind ==
  /\ pure.stage = "bfSample"
  /\ \E tick \in 0 .. MaxTick : \E low \in BOOLEAN :
       pure' = [pure EXCEPT !.stage = "bfElapsed",
                            !.now = @ + tick,
                            !.active = IF low THEN @ ELSE 1,
                            !.idleUntil = IF low /\ pure.active = 0 THEN pure.now + tick ELSE @]
  /\ UNCHANGED ctl

\* while (isBusLow()) ... return false;
BusFreeSample ==
  /\ pure.stage = "bfSample"
  /\ \E tick \in 0 .. MaxTick : \E low \in BOOLEAN :
       pure' = [pure EXCEPT !.stage = IF low THEN "bfElapsed" ELSE "bfDone",
                            !.now = @ + tick,
                            !.result = FALSE,
                            !.active = IF low THEN @ ELSE 1,
                            !.idleUntil = IF low /\ pure.active = 0 THEN pure.now + tick ELSE @]
  /\ UNCHANGED ctl

\* BusFreeElapsed that is content with the high width of a 1 bit
BusFreeElapsed_Short ==
  /\ pure.stage = "bfElapsed"
  /\ \E tick \in 0 .. MaxTick :
       LET currentTime == pure.now + tick
           timeDifference == currentTime - pure.startTime
       IN  pure' = [pure EXCEPT !.now = currentTime,
                                !.stage = IF timeDifference >= DATA_BIT_1_HIGH_US
                                            THEN "bfDone" ELSE "bfSample",
                                !.result = (timeDifference >= DATA_BIT_1_HIGH_US)]
  /\ UNCHANGED ctl

\* currentTime = getTimeUs(); if (currentTime - startTime >= DATA_BIT_TOTAL_US) return true;
BusFreeElapsed ==
  /\ pure.stage = "bfElapsed"
  /\ \E tick \in 0 .. MaxTick :
       LET currentTime == pure.now + tick
           timeDifference == currentTime - pure.startTime
       IN  pure' = [pure EXCEPT !.now = currentTime,
                                !.stage = IF timeDifference >= DATA_BIT_TOTAL_US
                                            THEN "bfDone" ELSE "bfSample",
                                !.result = (timeDifference >= DATA_BIT_TOTAL_US)]
  /\ UNCHANGED ctl

NextBusFree == BusFreeEntry \/ BusFreeStart \/ BusFreeSample \/ BusFreeElapsed

SpecBusFree == InitBusFree /\ [][NextBusFree]_vars

\* C21: isBusFree() returns true only if the line read idle at the call and
\* at every sample taken after it and at least 39 us have passed on the clock
\* since the call when it returns; it returns false if the line read active
\* at the call or at any later sample.
C21_BusIdle ==
  pure.stage = "bfDone" =>
    /\ pure.result =>
         /\ pure.firstIdle
         /\ pure.active = 0
         /\ pure.now - pure.callTime >= 39
         /\ pure.idleUntil >= pure.callTime /\ pure.idleUntil <= pure.now
    /\ (~pure.firstIdle \/ pure.active = 1) => ~pure.result

C21_Witness ==
  /\ pure.stage = "bfDone"
  /\ pure.result
  /\ pure.callTime = 7
  /\ pure.now = 7 + 39
  /\ pure.idleUntil = pure.now

(***************************************************************************)
(* A writer W and a reader R on one otherwise idle line                    *)
(*                                                                         *)
(* pure.line holds the high durations W has driven and R has not measured  *)
(* yet: R is never late for a pulse.  receiveAckBit() of either side       *)
(* returns only on a pulse driven by the other side.                       *)
(***************************************************************************)
\* both controllers enabled, R with local address a, W about to write a
\* ForDevice frame for a, R about to read
InitPair ==
  /\ InitController
  /\ \E a \in SlaveSamples :
       \E msg \in {m \in WriteMessages : m.broadcast = FOR_DEVICE /\ m.slave = a
                                          /\ m.dataLength \in 1 .. MAX_MESSAGE_SIZE} :
         pure = [stage |-> "pair", wEnabled |-> TRUE, rEnabled |-> TRUE,
                 rAddress |-> a, frame |-> msg, wpc |-> "w_enabled",
                 rpc |-> "r_enabled", got |-> ZeroMessage, rParity |-> 0,
                 rret |-> "none", wret |-> "none", line |-> <<>>]

PairFrame == UNCHANGED ctl

\* W drives the pulses and goes on to nextPc
PairDrive(pulses, nextPc) ==
  /\ pure' = [pure EXCEPT !.line = @ \o Highs(pulses), !.wpc = nextPc]
  /\ PairFrame

\* W: if (not isEnabled()) return false;
PairWriteCheckEnabled ==
  /\ pure.stage = "pair" /\ pure.wpc = "w_enabled"
  /\ pure' = [pure EXCEPT !.wpc = IF pure.wEnabled THEN "w_busfree" ELSE "returned",
                          !.wret = IF pure.wEnabled THEN @ ELSE "false"]
  /\ PairFrame

\* W: while (not isBusFree()) ...: nobody but W drives this line
PairWriteWaitBusFree ==
  /\ pure.stage = "pair" /\ pure.wpc = "w_busfree"
  /\ pure.line = <<>>
  /\ pure' = [pure EXCEPT !.wpc = "w_start"]
  /\ PairFrame

PairWriteStartBit ==
  /\ pure.stage = "pair" /\ pure.wpc = "w_start"
  /\ PairDrive(<<transmitStartBit>>, "w_broadcast")

PairWriteBroadcastBit ==
  /\ pure.stage = "pair" /\ pure.wpc = "w_broadcast"
  /\ PairDrive(<<IF pure.frame.broadcast = BROADCAST THEN transmitBit(0) ELSE transmitBit(1)>>,
               "w_master_bits")

PairWriteMasterBits ==
  /\ pure.stage = "pair" /\ pure.wpc = "w_master_bits"
  /\ PairDrive(transmitBits(pure.frame.master, 12), "w_master_parity")

PairWriteMasterParity ==
  /\ pure.stage = "pair" /\ pure.wpc = "w_master_parity"
  /\ PairDrive(<<transmitBit(calculateParity(pure.frame.master, 12))>>, "w_slave_bits")

PairWriteSlaveBits ==
  /\ pure.stage = "pair" /\ pure.wpc = "w_slave_bits"
  /\ PairDrive(transmitBits(pure.frame.slave, 12), "w_slave_parity")

\* W: the slave parity bit; next is receiveAckBit()
PairWriteSlaveParity ==
  /\ pure.stage = "pair" /\ pure.wpc = "w_slave_parity"
  /\ PairDrive(<<transmitBit(calculateParity(pure.frame.slave, 12))>>, "w_slave_ack")

\* R measures the next n pulses of the line
PairHeard(n) == SubSeq(pure.line, 1, n)

PairRest(n) == SubSeq(pure.line, n + 1, Len(pure.line))

\* R: if (not isEnabled()) return std::nullopt;
PairReadCheckEnabled ==
  /\ pure.stage = "pair" /\ pure.rpc = "r_enabled"
  /\ pure' = [pure EXCEPT !.rpc = IF pure.rEnabled THEN "r_start" ELSE "returned",
                          !.rret = IF pure.rEnabled THEN @ ELSE "nullopt"]
  /\ PairFrame

\* R: if (not m_driver.receiveStartBit()) return std::nullopt;
PairReadStartBit ==
  /\ pure.stage = "pair" /\ pure.rpc = "r_start"
  /\ Len(pure.line) >= 1
  /\ pure' = [pure EXCEPT !.line = PairRest(1),
                          !.rpc = IF isStartBit(pure.line[1]) THEN "r_broadcast" ELSE "returned",
                          !.rret = IF isStartBit(pure.line[1]) THEN @ ELSE "nullopt"]
  /\ PairFrame

PairReadBroadcastBit ==
  /\ pure.stage = "pair" /\ pure.rpc = "r_broadcast"
  /\ Len(pure.line) >= 1
  /\ pure' = [pure EXCEPT !.line = PairRest(1),
                          !.got.broadcast = IF receiveBit(pure.line[1]) = 0
                                              THEN BROADCAST ELSE FOR_DEVICE,
                          !.rpc = "r_master_bits"]
  /\ PairFrame

PairReadMasterBits ==
  /\ pure.stage = "pair" /\ pure.rpc = "r_master_bits"
  /\ Len(pure.line) >= MASTER_ADDRESS_BIT_SIZE
  /\ pure' = [pure EXCEPT !.line = PairRest(MASTER_ADDRESS_BIT_SIZE),
                          !.got.master = receiveBits(PairHeard(MASTER_ADDRESS_BIT_SIZE),
                                                     MASTER_ADDRESS_BIT_SIZE),
                          !.rpc = "r_master_parity"]
  /\ PairFrame

PairReadMasterParity ==
  /\ pure.stage = "pair" /\ pure.rpc = "r_master_parity"
  /\ Len(pure.line) >= 1
  /\ LET isParityValid == checkParity(pure.got.master, MASTER_ADDRESS_BIT_SIZE,
                                      receiveBit(pure.line[1]))
     IN  pure' = [pure EXCEPT !.line = PairRest(1),
                              !.rpc = IF isParityValid THEN "r_slave_bits" ELSE "returned",
                              !.rret = IF isParityValid THEN @ ELSE "nullopt"]
  /\ PairFrame

PairReadSlaveBits ==
  /\ pure.stage = "pair" /\ pure.rpc = "r_slave_bits"
  /\ Len(pure.line) >= SLAVE_ADDRESS_BIT_SIZE
  /\ pure' = [pure EXCEPT !.line = PairRest(SLAVE_ADDRESS_BIT_SIZE),
                          !.got.slave = receiveBits(PairHeard(SLAVE_ADDRESS_BIT_SIZE),
                                                    SLAVE_ADDRESS_BIT_SIZE),
                          !.rpc = "r_slave_parity"]
  /\ PairFrame

\* R: the slave parity bit; next is receiveAckBit()
PairReadSlaveParity ==
  /\ pure.stage = "pair" /\ pure.rpc = "r_slave_parity"
  /\ Len(pure.line) >= 1
  /\ pure' = [pure EXCEPT !.line = PairRest(1),
                          !.rParity = receiveBit(pure.line[1]),
                          !.rpc = "r_slave_ack"]
  /\ PairFrame

NextPair ==
  \/ PairWriteCheckEnabled \/ PairWriteWaitBusFree \/ PairWriteStartBit
  \/ PairWriteBroadcastBit \/ PairWriteMasterBits \/ PairWriteMasterParity
  \/ PairWriteSlaveBits \/ PairWriteSlaveParity
  \/ PairReadCheckEnabled \/ PairReadStartBit \/ PairReadBroadcastBit
  \/ PairReadMasterBits \/ PairReadMasterParity \/ PairReadSlaveBits
  \/ PairReadSlaveParity

SpecPair == InitPair /\ [][NextPair]_vars

\* W has sent the slave parity bit and is in receiveAckBit(); R has received
\* the slave field for its own address with the right parity and is in
\* receiveAckBit() too; no pulse is on the line and neither side drives one
BothAwaitHandshake ==
  /\ pure.stage = "pair"
  /\ pure.wpc = "w_slave_ack"
  /\ pure.rpc = "r_slave_ack"
  /\ pure.line = <<>>
  /\ pure.got.broadcast = FOR_DEVICE
  /\ pure.got.master = pure.frame.master
  /\ pure.got.slave = pure.rAddress
  /\ checkParity(pure.got.slave, SLAVE_ADDRESS_BIT_SIZE, pure.rParity)

\* C22: with W writing a well-formed ForDevice frame for R's address and R
\* reading on the same otherwise idle line, no state is reached in which W,
\* having sent a field's parity bit, and R, having received it, both wait
\* for the other side to drive the handshake bit.
C22_NoMutualWait == ~BothAwaitHandshake

Next ==
  \/ enable
  \/ disable
  \/ BusStuck
  \/ readMessage
  \/ ReadStep
  \/ writeMessage
  \/ WriteStep
  \/ Release

Spec == Init /\ [][Next]_vars

\* the controller runs: a step of a call that can be taken is taken
FairSpec == Spec /\ WF_vars(ReadStep \/ WriteStep)

====
